---- MODULE Spec2Model ----
(***************************************************************************)
(* Model of the story list controller of static/app.js (lines 1-415):      *)
(* the module-level `state` object, the page loader loadStories, the       *)
(* handlers that call it (category click, loadMore, debounced search,      *)
(* clearSearch, Retry, refreshData, init) and the network replies they     *)
(* wait for; and of the trending page (static/app.js lines 747-968) and    *)
(* the blindspots page (static/blindspots.js): their loader and their      *)
(* refreshData.  One document is loaded at a time (`page`).  JavaScript    *)
(* runs one handler or one continuation of an async function to            *)
(* completion before the next one starts, so every action below is one     *)
(* such run: from an event or a settled promise up to the next await of a  *)
(* network reply.                                                          *)
(***************************************************************************)
EXTENDS Integers, Sequences, FiniteSets, TLC

VARIABLES
  page,           \* the document that is loaded: "list", "trending" or "blindspots"
  state,          \* the `state` object of app.js:2-11
  pending,        \* /api/stories requests issued and not yet settled
  data,           \* `data` of loadStories: the last value fetchStories gave it
  grid,           \* what #grid shows
  more,           \* style.display of #more
  inputValue,     \* value of the search box #q
  searchTimeout,  \* the debounce timer: NoTimer or the text of the event that armed it
  btnDisabled,    \* refreshBtn.disabled
  toast,          \* type of the last toast shown
  ipc,            \* position of init()
  rpc,            \* position of refreshData()
  rpage,          \* what the loadStories call of the running refreshData got
  owed,           \* a category click whose loadStories call was dropped and no page-0 fetch since
  settled,        \* how the /api/stories request handled last ended, and which one if it failed
  posts,          \* POST /api/refresh requests issued and not yet settled
  topics,         \* `topics` of the trending page
  blindspots,     \* `blindspots` of the blindspots page
  loading,        \* `loading` of the trending / blindspots page
  fetches,        \* /api/trending or /api/blindspots requests issued and not yet settled
  threw,          \* a read fetcher has thrown to its caller
  issuedAt,       \* offset of the last /api/stories request issued under the filter in force
  storage,        \* localStorage: key -> stored value
  dataTheme,      \* the data-theme attribute of the document element
  storyId,        \* window.__STORY_ID__ of the story page
  storyData,      \* `storyData` of the story page
  timelineData,   \* `timelineData` of the story page
  currentTab,     \* `currentTab` of the story page
  tpending,       \* /api/story/:id/timeline requests issued and not yet settled
  panel,          \* what the #timeline container shows
  spc             \* position of init() of the story page

vars == <<page, state, pending, data, grid, more, inputValue, searchTimeout,
          btnDisabled, toast, ipc, rpc, rpage, owed, settled, posts,
          topics, blindspots, loading, fetches, threw, issuedAt,
          storage, dataTheme, storyId, storyData, timelineData, currentTab,
          tpending, panel, spc>>

\* what the story list page never touches
feedVars == <<page, topics, blindspots, loading, fetches, threw>>

\* what the trending and blindspots pages never touch
listVars == <<state, pending, data, more, inputValue, searchTimeout, rpage, owed, settled,
              issuedAt>>

\* what only the theme handlers and the story page touch
siteVars == <<storage, dataTheme, storyId, storyData, timelineData, currentTab,
              tpending, panel, spc>>

----------------------------------------------------------------------------
(* Bounds of the model *)

MaxPages == 2       \* loadMore is explored up to offset MaxPages * Limit
MaxStories == 4     \* accumulated list explored up to this length

(* Program constants *)

Limit == 30         \* state.limit
DefaultCategory == "All"

(* The environment: what the user can type and what the server can answer *)

Texts == {"", "a"}
NoTimer == "<none>"
ServerCategories == <<"All", "Tech">>
Items == {"A", "B", "C", "D"}
Bodies ==
  { [total |-> 2, items |-> <<"A", "B">>],
    [total |-> 5, items |-> <<"A", "B">>],
    [total |-> 5, items |-> <<"C", "D">>] }

\* A reply to GET /api/stories: a 2xx answer with a JSON object, a 2xx answer
\* whose JSON is `null`, a rejected fetch, a non-2xx status, malformed JSON.
PageOutcomes ==
  { [kind |-> "ok", body |-> b] : b \in Bodies } \cup
  { [kind |-> k, body |-> [total |-> 0, items |-> <<>>]] :
      k \in {"null", "reject", "status", "malformed"} }

\* A reply to GET /api/categories.
CategoryOutcomes == {"ok", "reject", "status", "malformed"}

\* A reply to POST /api/refresh: body with ok true, body with ok false,
\* rejected fetch, malformed JSON.
RefreshOutcomes == {"ok", "notok", "reject", "malformed"}

NoData == [kind |-> "none", total |-> 0, items |-> <<>>]

\* replies that fetchStories turns into its empty result
FailKinds == {"reject", "status", "malformed"}

Pages == {"list", "trending", "blindspots"}

\* A reply to GET /api/trending or GET /api/blindspots: a 2xx answer with the
\* list, a non-2xx answer with a JSON error object, a 2xx answer whose JSON
\* is `null`, a rejected fetch, malformed JSON.
FeedLists == { <<>>, <<"X">>, <<"X", "Y">> }
FeedOutcomes ==
  { [kind |-> "ok", list |-> l] : l \in FeedLists } \cup
  { [kind |-> k, list |-> <<>>] : k \in {"status", "null", "reject", "malformed"} }

----------------------------------------------------------------------------
(* Pure helpers *)

\* fetchCategories: data.categories, or ['All'] on any failure
fetchCategories(o) ==
  IF o = "ok" THEN ServerCategories ELSE <<DefaultCategory>>

\* fetchStories: the parsed body, or the empty result on any failure.  A body
\* that is JSON null is returned as it is.
fetchStories(o) ==
  IF o.kind = "ok" THEN [kind |-> "page", total |-> o.body.total, items |-> o.body.items]
  ELSE IF o.kind = "null" THEN [kind |-> "null", total |-> 0, items |-> <<>>]
  ELSE [kind |-> "page", total |-> 0, items |-> <<>>]

\* the query string fetchStories sends
Request(s) ==
  [category |-> IF s.category = "" THEN DefaultCategory ELSE s.category,
   q |-> s.query, limit |-> s.limit, offset |-> s.offset]

\* loadStories lines 235-239
MergeAlwaysReplace(s, d) == d.items

MergePrepend(s, d) ==
  IF s.offset = 0 THEN d.items ELSE d.items \o s.stories

MergePage(s, d) ==
  IF s.offset = 0 THEN d.items ELSE s.stories \o d.items

\* loadStories line 241
ComputeHasMore(stories, d) == Len(stories) < d.total

\* renderStories
renderStories(s) ==
  IF Len(s.stories) = 0 /\ ~s.loading THEN "empty"
  ELSE IF Len(s.stories) = 0 THEN "blank"
  ELSE "stories"

\* updateMoreButton
updateMoreButtonAlwaysShown(s) == "block"

updateMoreButton(s) == IF s.hasMore THEN "block" ELSE "none"

\* the finally block of loadStories
FinallyKeepLoading(s) == s

Finally(s) == [s EXCEPT !.loading = FALSE]

----------------------------------------------------------------------------
(* loadStories, from the call to its first await.  s is the state object as *)
(* the calling handler left it.                                             *)

\* ghost: no reply handled since the running load started
NoSettled ==
  [class |-> "none",
   req |-> [category |-> DefaultCategory, q |-> "", limit |-> Limit, offset |-> 0]]

\* ghost: how a reply ended for loadStories, with the request when it failed
Class(o) == IF o.kind \in FailKinds THEN "fail" ELSE o.kind

Settled(o, r) ==
  [class |-> Class(o), req |-> IF Class(o) = "fail" THEN r ELSE NoSettled.req]

Issues(s) == ~s.loading

loadStoriesNoGuard(s) ==
  /\ state' = [s EXCEPT !.loading = TRUE]
  /\ pending' = Append(pending, Request(s))
  /\ grid' = IF s.offset = 0 THEN "spinner" ELSE grid
  /\ data' = NoData
  /\ settled' = NoSettled

loadStoriesNoFetch(s) ==
  IF s.loading
  THEN /\ state' = s
       /\ UNCHANGED <<pending, grid, data, settled>>
  ELSE /\ state' = [s EXCEPT !.loading = TRUE]
       /\ grid' = IF s.offset = 0 THEN "spinner" ELSE grid
       /\ UNCHANGED <<pending, data, settled>>

loadStories(s) ==
  IF s.loading
  THEN /\ state' = s
       /\ UNCHANGED <<pending, grid, data, settled>>
  ELSE /\ state' = [s EXCEPT !.loading = TRUE]
       /\ pending' = Append(pending, Request(s))
       /\ grid' = IF s.offset = 0 THEN "spinner" ELSE grid
       /\ data' = NoData
       /\ settled' = NoSettled

\* ghost: no request issued yet under the filter in force
NoIssue == -1

\* ghost: the offset of the request loadStories(s) issues; a filter change
\* whose load is dropped leaves no request issued under the new filter
IssuedAfter(s, filterChanged) ==
  IF Issues(s) THEN s.offset
  ELSE IF filterChanged THEN NoIssue ELSE issuedAt

\* ghost: a page-0 fetch pays what a dropped category click owes
OwedAfter(s) == IF Issues(s) /\ s.offset = 0 THEN FALSE ELSE owed

----------------------------------------------------------------------------
(* Theme: initTheme and toggleTheme of each page script *)

NoValue == "<null>"
StorageKeys == {"openground-theme", "theme"}

\* the localStorage key the page's script uses
ThemeKey(p) == IF p = "blindspots" THEN "theme" ELSE "openground-theme"

\* the default of initTheme when nothing is stored
DefaultTheme(p) == IF p = "blindspots" THEN "light" ELSE "dark"

\* initTheme: localStorage.getItem(key) || default
initTheme(p, st) ==
  IF st[ThemeKey(p)] = NoValue THEN DefaultTheme(p) ELSE st[ThemeKey(p)]

\* toggleTheme line 2: current === 'dark' ? 'light' : 'dark'
NextTheme(current) == IF current = "dark" THEN "light" ELSE "dark"

----------------------------------------------------------------------------
InitState ==
  [category |-> DefaultCategory, query |-> "", stories |-> <<>>,
   offset |-> 0, limit |-> Limit, hasMore |-> TRUE,
   loading |-> FALSE, categories |-> <<>>]

\* The state when init() of the loaded page has reached its first await:
\* /api/categories requested on the story list, the loader started on the
\* trending and blindspots pages.
Init ==
  /\ page \in Pages
  /\ state = InitState
  /\ pending = <<>>
  /\ data = NoData
  /\ grid = IF page = "list" THEN "initial" ELSE "spinner"
  /\ more = "initial"
  /\ inputValue = ""
  /\ searchTimeout = NoTimer
  /\ btnDisabled = FALSE
  /\ toast = "none"
  /\ ipc = IF page = "list" THEN "cats" ELSE "load"
  /\ rpc = "idle"
  /\ rpage = NoData
  /\ owed = FALSE
  /\ settled = NoSettled
  /\ posts = 0
  /\ topics = <<>>
  /\ blindspots = <<>>
  /\ loading = (page # "list")
  /\ fetches = IF page = "list" THEN 0 ELSE 1
  /\ threw = FALSE
  /\ issuedAt = NoIssue
  /\ storage = [k \in StorageKeys |-> NoValue]
  /\ dataTheme = initTheme(page, storage)
  /\ storyId = ""
  /\ storyData = "null"
  /\ timelineData = "null"
  /\ currentTab = "compare"
  /\ tpending = 0
  /\ panel = "initial"
  /\ spc = "none"

\* init(): /api/categories settles; renderCategories; await loadStories()
CategoriesSettle(o) ==
  /\ page = "list"
  /\ ipc = "cats"
  /\ LET s == [state EXCEPT !.categories = fetchCategories(o)] IN
       /\ loadStories(s)
       /\ ipc' = IF Issues(s) THEN "load" ELSE "meta"
       /\ owed' = OwedAfter(s)
       /\ issuedAt' = IssuedAfter(s, FALSE)
  /\ UNCHANGED <<more, inputValue, searchTimeout, btnDisabled, toast, rpc, rpage, posts>>
  /\ UNCHANGED feedVars
  /\ UNCHANGED siteVars

\* init(): /api/meta settles (updateMeta only writes the "updated" texts)
InitMetaSettle ==
  /\ page = "list"
  /\ ipc = "meta"
  /\ ipc' = "done"
  /\ UNCHANGED <<state, pending, data, grid, more, inputValue, searchTimeout,
                 btnDisabled, toast, rpc, rpage, owed, issuedAt, settled, posts>>
  /\ UNCHANGED feedVars
  /\ UNCHANGED siteVars

\* click on a rendered category button
CategoryClickNoCheck(newCat) ==
  /\ page = "list"
  /\ \E i \in 1..Len(state.categories) : state.categories[i] = newCat
  /\ LET s == [state EXCEPT !.category = newCat, !.offset = 0, !.stories = <<>>] IN
       /\ loadStories(s)
       /\ owed' = ~Issues(s)
       /\ issuedAt' = IssuedAfter(s, TRUE)
       /\ UNCHANGED <<more, inputValue, searchTimeout, btnDisabled,
                      toast, ipc, rpc, rpage, posts>>
       /\ UNCHANGED feedVars
       /\ UNCHANGED siteVars

CategoryClick(newCat) ==
  /\ page = "list"
  /\ \E i \in 1..Len(state.categories) : state.categories[i] = newCat
  /\ IF newCat = state.category
     THEN UNCHANGED vars
     ELSE LET s == [state EXCEPT !.category = newCat, !.offset = 0, !.stories = <<>>] IN
            /\ loadStories(s)
            /\ owed' = ~Issues(s)
            /\ issuedAt' = IssuedAfter(s, TRUE)
            /\ UNCHANGED <<more, inputValue, searchTimeout, btnDisabled,
                           toast, ipc, rpc, rpage, posts>>
            /\ UNCHANGED feedVars
            /\ UNCHANGED siteVars

\* loadMore(): the click handler of #more, a global function with no guard
\* of its own (it reads neither state.hasMore nor state.loading)
LoadMore ==
  /\ page = "list"
  /\ state.offset + state.limit <= MaxPages * Limit
  /\ LET s == [state EXCEPT !.offset = state.offset + state.limit] IN
       /\ loadStories(s)
       /\ owed' = OwedAfter(s)
       /\ issuedAt' = IssuedAfter(s, FALSE)
  /\ UNCHANGED <<more, inputValue, searchTimeout, btnDisabled, toast, ipc, rpc, rpage, posts>>
  /\ UNCHANGED feedVars
  /\ UNCHANGED siteVars

\* input event on #q: handleSearch clears the timer and arms a new one
HandleSearch(text) ==
  /\ page = "list"
  /\ inputValue' = text
  /\ searchTimeout' = text
  /\ UNCHANGED <<state, pending, data, grid, more, btnDisabled, toast, ipc, rpc, rpage,
                 owed, issuedAt, settled, posts>>
  /\ UNCHANGED feedVars
  /\ UNCHANGED siteVars

\* the debounce timer fires: the callback reads e.target.value now
SearchTimerFireCapturedText ==
  /\ page = "list"
  /\ searchTimeout # NoTimer
  /\ searchTimeout' = NoTimer
  /\ LET s == [state EXCEPT !.query = searchTimeout, !.offset = 0, !.stories = <<>>] IN
       /\ loadStories(s)
       /\ owed' = OwedAfter(s)
       /\ issuedAt' = IssuedAfter(s, TRUE)
  /\ UNCHANGED <<more, inputValue, btnDisabled, toast, ipc, rpc, rpage, posts>>
  /\ UNCHANGED feedVars
  /\ UNCHANGED siteVars

SearchTimerFire ==
  /\ page = "list"
  /\ searchTimeout # NoTimer
  /\ searchTimeout' = NoTimer
  /\ LET s == [state EXCEPT !.query = inputValue, !.offset = 0, !.stories = <<>>] IN
       /\ loadStories(s)
       /\ owed' = OwedAfter(s)
       /\ issuedAt' = IssuedAfter(s, TRUE)
  /\ UNCHANGED <<more, inputValue, btnDisabled, toast, ipc, rpc, rpage, posts>>
  /\ UNCHANGED feedVars
  /\ UNCHANGED siteVars

\* clearSearch()
ClearSearch ==
  /\ page = "list"
  /\ inputValue' = ""
  /\ LET s == [state EXCEPT !.query = "", !.offset = 0, !.stories = <<>>] IN
       /\ loadStories(s)
       /\ owed' = OwedAfter(s)
       /\ issuedAt' = IssuedAfter(s, TRUE)
  /\ UNCHANGED <<more, searchTimeout, btnDisabled, toast, ipc, rpc, rpage, posts>>
  /\ UNCHANGED feedVars
  /\ UNCHANGED siteVars

\* the Retry button of the "Failed to load" grid
Retry ==
  /\ page = "list"
  /\ grid = "failed"
  /\ loadStories(state)
  /\ owed' = OwedAfter(state)
  /\ issuedAt' = IssuedAfter(state, FALSE)
  /\ UNCHANGED <<more, inputValue, searchTimeout, btnDisabled, toast, ipc, rpc, rpage, posts>>
  /\ UNCHANGED feedVars
  /\ UNCHANGED siteVars

\* a /api/stories request settles: loadStories from line 233 to its end, then
\* the caller that awaits it (init or refreshData) goes on to updateMeta
PageSettle(i, o) ==
  /\ page = "list"
  /\ i \in 1..Len(pending)
  /\ settled' = Settled(o, pending[i])
  /\ LET d == fetchStories(o) IN
       /\ data' = d
       /\ IF d.kind = "null"
          THEN /\ state' = Finally(state)
               /\ grid' = "failed"
               /\ more' = more
          ELSE LET st == MergePage(state, d)
                   s2 == [state EXCEPT !.stories = st, !.hasMore = ComputeHasMore(st, d)]
               IN /\ Len(st) <= MaxStories
                  /\ state' = Finally(s2)
                  /\ grid' = renderStories(s2)
                  /\ more' = updateMoreButton(s2)
       /\ rpage' = IF rpc = "load" THEN d ELSE rpage
  /\ pending' = SubSeq(pending, 1, i - 1) \o SubSeq(pending, i + 1, Len(pending))
  /\ ipc' = IF ipc = "load" THEN "meta" ELSE ipc
  /\ rpc' = IF rpc = "load" THEN "meta" ELSE rpc
  /\ UNCHANGED <<inputValue, searchTimeout, btnDisabled, toast, owed, issuedAt, posts>>
  /\ UNCHANGED feedVars
  /\ UNCHANGED siteVars

\* click on the enabled Refresh button: refreshData up to the POST
RefreshClickNoDisable ==
  /\ page = "list"
  /\ ~btnDisabled
  /\ btnDisabled' = FALSE
  /\ rpc' = "post"
  /\ posts' = posts + 1
  /\ UNCHANGED <<state, pending, data, grid, more, inputValue, searchTimeout, toast, ipc,
                 rpage, owed, issuedAt, settled>>
  /\ UNCHANGED feedVars
  /\ UNCHANGED siteVars

RefreshClick ==
  /\ page = "list"
  /\ ~btnDisabled
  /\ btnDisabled' = TRUE
  /\ rpc' = "post"
  /\ posts' = posts + 1
  /\ UNCHANGED <<state, pending, data, grid, more, inputValue, searchTimeout, toast, ipc,
                 rpage, owed, issuedAt, settled>>
  /\ UNCHANGED feedVars
  /\ UNCHANGED siteVars

\* POST /api/refresh settles
RefreshSettleResetFirst(o) ==
  /\ page = "list"
  /\ rpc = "post"
  /\ posts' = posts - 1
  /\ LET s == [state EXCEPT !.offset = 0, !.stories = <<>>] IN
     IF o = "ok"
     THEN /\ loadStories(s)
          /\ rpc' = IF Issues(s) THEN "load" ELSE "meta"
          /\ owed' = OwedAfter(s)
          /\ issuedAt' = IssuedAfter(s, TRUE)
          /\ UNCHANGED <<btnDisabled, toast>>
     ELSE /\ toast' = "error"
          /\ btnDisabled' = FALSE
          /\ rpc' = "idle"
          /\ state' = s
          /\ UNCHANGED <<pending, grid, data, owed, issuedAt, settled>>
  /\ UNCHANGED <<more, inputValue, searchTimeout, ipc, rpage>>
  /\ UNCHANGED feedVars
  /\ UNCHANGED siteVars

RefreshSettle(o) ==
  /\ page = "list"
  /\ rpc = "post"
  /\ posts' = posts - 1
  /\ IF o = "ok"
     THEN LET s == [state EXCEPT !.offset = 0, !.stories = <<>>] IN
            /\ loadStories(s)
            /\ rpc' = IF Issues(s) THEN "load" ELSE "meta"
            /\ owed' = OwedAfter(s)
            /\ issuedAt' = IssuedAfter(s, TRUE)
            /\ UNCHANGED <<btnDisabled, toast>>
     ELSE /\ toast' = "error"
          /\ btnDisabled' = FALSE
          /\ rpc' = "idle"
          /\ UNCHANGED <<state, pending, grid, data, owed, issuedAt, settled>>
  /\ UNCHANGED <<more, inputValue, searchTimeout, ipc, rpage>>
  /\ UNCHANGED feedVars
  /\ UNCHANGED siteVars

\* refreshData: /api/meta settles, success toast, finally re-enables the button
RefreshMetaSettle ==
  /\ page = "list"
  /\ rpc = "meta"
  /\ rpc' = "idle"
  /\ toast' = "success"
  /\ btnDisabled' = FALSE
  /\ rpage' = NoData
  /\ UNCHANGED <<state, pending, data, grid, more, inputValue, searchTimeout, ipc, owed, issuedAt,
                 settled, posts>>
  /\ UNCHANGED feedVars
  /\ UNCHANGED siteVars

----------------------------------------------------------------------------
(* The trending page *)

\* fetchTrending: the parsed body; a rejected fetch or malformed JSON is thrown
\* to the caller, a non-2xx answer is parsed like any other
fetchTrending(o) ==
  [threw |-> o.kind \in {"reject", "malformed"},
   isNull |-> o.kind = "null",
   list |-> IF o.kind = "ok" THEN o.list ELSE <<>>]

\* renderTrending
renderTrending(l, ld) ==
  IF Len(l) = 0 /\ ~ld THEN "empty"
  ELSE IF Len(l) = 0 THEN "blank"
  ELSE "items"

\* loadTrending, from the call to its first await
loadTrending ==
  IF loading
  THEN UNCHANGED <<loading, fetches, grid>>
  ELSE /\ loading' = TRUE
       /\ fetches' = fetches + 1
       /\ grid' = "spinner"

\* a /api/trending request settles: loadTrending from its await to its end, then
\* the caller that awaits it (init, or refreshData up to its end)
loadTrendingSettle(o) ==
  /\ page = "trending"
  /\ fetches > 0
  /\ fetches' = fetches - 1
  /\ LET r == fetchTrending(o) IN
       /\ threw' = r.threw
       /\ IF r.threw \/ r.isNull
          THEN /\ grid' = "failed"
               /\ UNCHANGED topics
          ELSE /\ topics' = r.list
               /\ grid' = renderTrending(r.list, loading)
  /\ loading' = FALSE
  /\ ipc' = IF ipc = "load" THEN "done" ELSE ipc
  /\ IF rpc = "load"
     THEN /\ rpc' = "idle"
          /\ toast' = "success"
          /\ btnDisabled' = FALSE
     ELSE UNCHANGED <<rpc, toast, btnDisabled>>
  /\ UNCHANGED <<page, blindspots, posts>>
  /\ UNCHANGED listVars
  /\ UNCHANGED siteVars

\* click on the enabled Refresh button of the trending page
TrendingRefreshClick ==
  /\ page = "trending"
  /\ ~btnDisabled
  /\ btnDisabled' = TRUE
  /\ rpc' = "post"
  /\ posts' = posts + 1
  /\ UNCHANGED <<grid, toast, ipc, topics, blindspots, loading, fetches, threw, page>>
  /\ UNCHANGED listVars
  /\ UNCHANGED siteVars

\* POST /api/refresh settles on the trending page
TrendingRefreshSettle(o) ==
  /\ page = "trending"
  /\ rpc = "post"
  /\ posts' = posts - 1
  /\ IF o = "ok"
     THEN /\ loadTrending
          /\ IF loading
             THEN /\ rpc' = "idle"
                  /\ toast' = "success"
                  /\ btnDisabled' = FALSE
             ELSE /\ rpc' = "load"
                  /\ UNCHANGED <<toast, btnDisabled>>
     ELSE /\ toast' = IF o = "notok" THEN toast ELSE "error"
          /\ btnDisabled' = FALSE
          /\ rpc' = "idle"
          /\ UNCHANGED <<loading, fetches, grid>>
  /\ UNCHANGED <<ipc, topics, blindspots, threw, page>>
  /\ UNCHANGED listVars
  /\ UNCHANGED siteVars

----------------------------------------------------------------------------
(* The blindspots page *)

\* fetchBlindspots: the parsed body; a rejected fetch or malformed JSON is thrown
\* to the caller, a non-2xx answer is parsed like any other
fetchBlindspots(o) ==
  [threw |-> o.kind \in {"reject", "malformed"},
   isNull |-> o.kind = "null",
   list |-> IF o.kind = "ok" THEN o.list ELSE <<>>]

\* renderBlindspots
renderBlindspots(l, ld) ==
  IF Len(l) = 0 /\ ~ld THEN "empty"
  ELSE IF Len(l) = 0 THEN "blank"
  ELSE "items"

\* loadBlindspots, from the call to its first await
loadBlindspots ==
  IF loading
  THEN UNCHANGED <<loading, fetches, grid>>
  ELSE /\ loading' = TRUE
       /\ fetches' = fetches + 1
       /\ grid' = "spinner"

\* a /api/blindspots request settles: loadBlindspots from its await to its end, then
\* the caller that awaits it (init, or refreshData up to its end)
loadBlindspotsSettle(o) ==
  /\ page = "blindspots"
  /\ fetches > 0
  /\ fetches' = fetches - 1
  /\ LET r == fetchBlindspots(o) IN
       /\ threw' = r.threw
       /\ IF r.threw \/ r.isNull
          THEN /\ grid' = "failed"
               /\ UNCHANGED blindspots
          ELSE /\ blindspots' = r.list
               /\ grid' = renderBlindspots(r.list, loading)
  /\ loading' = FALSE
  /\ ipc' = IF ipc = "load" THEN "done" ELSE ipc
  /\ IF rpc = "load"
     THEN /\ rpc' = "idle"
          /\ toast' = "success"
          /\ btnDisabled' = FALSE
     ELSE UNCHANGED <<rpc, toast, btnDisabled>>
  /\ UNCHANGED <<page, topics, posts>>
  /\ UNCHANGED listVars
  /\ UNCHANGED siteVars

\* click on the enabled Refresh button of the blindspots page
BlindspotsRefreshClick ==
  /\ page = "blindspots"
  /\ ~btnDisabled
  /\ btnDisabled' = TRUE
  /\ rpc' = "post"
  /\ posts' = posts + 1
  /\ UNCHANGED <<grid, toast, ipc, topics, blindspots, loading, fetches, threw, page>>
  /\ UNCHANGED listVars
  /\ UNCHANGED siteVars

\* POST /api/refresh settles on the blindspots page
BlindspotsRefreshSettle(o) ==
  /\ page = "blindspots"
  /\ rpc = "post"
  /\ posts' = posts - 1
  /\ IF o = "ok"
     THEN /\ loadBlindspots
          /\ IF loading
             THEN /\ rpc' = "idle"
                  /\ toast' = "success"
                  /\ btnDisabled' = FALSE
             ELSE /\ rpc' = "load"
                  /\ UNCHANGED <<toast, btnDisabled>>
     ELSE /\ toast' = IF o = "notok" THEN toast ELSE "error"
          /\ btnDisabled' = FALSE
          /\ rpc' = "idle"
          /\ UNCHANGED <<loading, fetches, grid>>
  /\ UNCHANGED <<ipc, topics, blindspots, threw, page>>
  /\ UNCHANGED listVars
  /\ UNCHANGED siteVars

----------------------------------------------------------------------------
Next ==
  \/ \E o \in CategoryOutcomes : CategoriesSettle(o)
  \/ InitMetaSettle
  \/ \E c \in {ServerCategories[i] : i \in 1..Len(ServerCategories)} : CategoryClick(c)
  \/ LoadMore
  \/ \E t \in Texts : HandleSearch(t)
  \/ SearchTimerFire
  \/ ClearSearch
  \/ Retry
  \/ \E i \in 1..Len(pending), o \in PageOutcomes : PageSettle(i, o)
  \/ RefreshClick
  \/ \E o \in RefreshOutcomes : RefreshSettle(o)
  \/ RefreshMetaSettle
  \/ \E o \in FeedOutcomes : loadTrendingSettle(o)
  \/ TrendingRefreshClick
  \/ \E o \in RefreshOutcomes : TrendingRefreshSettle(o)
  \/ \E o \in FeedOutcomes : loadBlindspotsSettle(o)
  \/ BlindspotsRefreshClick
  \/ \E o \in RefreshOutcomes : BlindspotsRefreshSettle(o)

Spec == Init /\ [][Next]_vars

----------------------------------------------------------------------------
(* The site: navigation between the four documents, the theme handlers of  *)
(* each page script, and the tabs of the story page (static/app.js lines   *)
(* 416-746).  The theme handlers and the story page read and write nothing *)
(* of what the actions above use, so they are explored on their own: here  *)
(* the user navigates, toggles the theme and uses the tabs of the story    *)
(* page, and the init() of every page runs on as its replies arrive; the   *)
(* other controls of the list, trending and blindspots pages are left      *)
(* alone.                                                                  *)

MaxTimelineFetches == 2   \* timeline requests explored in flight at once

SitePages == Pages \cup {"story"}
StoryIds == {"", "s1"}
Tabs == {"compare", "timeline", "all"}

\* A reply to GET /api/story/:id: a 2xx answer with a story, anything else.
StoryOutcomes == {"ok", "null", "status", "reject", "malformed"}

\* A reply to GET /api/story/:id/timeline: a 2xx answer with timeline items,
\* one without items, one whose JSON is `null`, a non-2xx status, a
\* rejected fetch, malformed JSON.
TimelineOutcomes == {"ok", "noitems", "null", "status", "reject", "malformed"}

\* what the list, trending and blindspots actions own
contentVars == <<state, pending, data, grid, more, inputValue, searchTimeout,
                 btnDisabled, toast, ipc, rpc, rpage, owed, settled, posts,
                 topics, blindspots, loading, fetches, threw, issuedAt>>

\* fetchTimeline: the parsed body, or a throw on !res.ok, rejection, bad JSON
fetchTimeline(o) ==
  [threw |-> o \in {"status", "reject", "malformed"},
   value |-> IF o = "ok" THEN "timeline"
             ELSE IF o = "noitems" THEN "noitems" ELSE "null"]

\* renderTimeline
renderTimeline(td) ==
  IF td = "null" THEN "loading"
  ELSE IF td = "noitems" THEN "empty"
  ELSE "timeline"

\* loadTimeline, from the call to its await
loadTimeline ==
  IF storyId = ""
  THEN UNCHANGED tpending
  ELSE tpending' = tpending + 1

\* the pages whose init() starts the feed loader
FeedPages == {"trending", "blindspots"}

\* the document of page p is loaded and its init() runs to its first await
\* (or to its return, on a story page without story id): the globals of the
\* script start afresh, requests of the old document are abandoned, and
\* only local storage is carried over
Navigate(p, id) ==
  /\ p \in SitePages
  /\ id \in (IF p = "story" THEN StoryIds ELSE {""})
  /\ page' = p
  /\ dataTheme' = initTheme(p, storage)
  /\ storyId' = id
  /\ storyData' = "null"
  /\ timelineData' = "null"
  /\ currentTab' = "compare"
  /\ tpending' = 0
  /\ panel' = "initial"
  /\ spc' = IF id # "" THEN "story" ELSE "none"
  /\ state' = InitState
  /\ pending' = <<>>
  /\ data' = NoData
  /\ grid' = IF p \in FeedPages THEN "spinner" ELSE "initial"
  /\ more' = "initial"
  /\ inputValue' = ""
  /\ searchTimeout' = NoTimer
  /\ btnDisabled' = FALSE
  /\ toast' = "none"
  /\ ipc' = IF p \in FeedPages THEN "load" ELSE "cats"
  /\ rpc' = "idle"
  /\ rpage' = NoData
  /\ owed' = FALSE
  /\ settled' = NoSettled
  /\ posts' = 0
  /\ topics' = <<>>
  /\ blindspots' = <<>>
  /\ loading' = (p \in FeedPages)
  /\ fetches' = IF p \in FeedPages THEN 1 ELSE 0
  /\ threw' = FALSE
  /\ issuedAt' = NoIssue
  /\ UNCHANGED storage

\* click on #themeBtn; the story page registers the listener only when it
\* has a story id
ToggleThemeStoresOld ==
  /\ page = "story" => storyId # ""
  /\ dataTheme' = NextTheme(dataTheme)
  /\ storage' = [storage EXCEPT ![ThemeKey(page)] = dataTheme]
  /\ UNCHANGED <<page, storyId, storyData, timelineData, currentTab, tpending, panel, spc>>
  /\ UNCHANGED contentVars

ToggleTheme ==
  /\ page = "story" => storyId # ""
  /\ dataTheme' = NextTheme(dataTheme)
  /\ storage' = [storage EXCEPT ![ThemeKey(page)] = NextTheme(dataTheme)]
  /\ UNCHANGED <<page, storyId, storyData, timelineData, currentTab, tpending, panel, spc>>
  /\ UNCHANGED contentVars

\* init() of the story page: /api/story/:id settles
StorySettle(o) ==
  /\ page = "story"
  /\ spc = "story"
  /\ spc' = "done"
  /\ storyData' = IF o = "ok" THEN "story" ELSE "null"
  /\ UNCHANGED <<page, storage, dataTheme, storyId, timelineData, currentTab, tpending, panel>>
  /\ UNCHANGED contentVars

\* click on a tab button: switchTab(tabName)
SwitchTab(tabName) ==
  /\ page = "story"
  /\ storyId # ""
  /\ currentTab' = tabName
  /\ IF tabName = "timeline" /\ timelineData = "null"
     THEN /\ tpending < MaxTimelineFetches
          /\ loadTimeline
     ELSE UNCHANGED tpending
  /\ UNCHANGED <<page, storage, dataTheme, storyId, storyData, timelineData, panel, spc>>
  /\ UNCHANGED contentVars

\* a /api/story/:id/timeline request settles: loadTimeline from its await on
TimelineSettle(o) ==
  /\ page = "story"
  /\ tpending > 0
  /\ tpending' = tpending - 1
  /\ LET r == fetchTimeline(o) IN
       IF r.threw
       THEN /\ panel' = "failed"
            /\ UNCHANGED timelineData
       ELSE /\ timelineData' = r.value
            /\ panel' = renderTimeline(r.value)
  /\ UNCHANGED <<page, storage, dataTheme, storyId, storyData, currentTab, spc>>
  /\ UNCHANGED contentVars

\* The state when init() of the story page has reached its first await, or
\* has returned for want of a story id; the variables of the other pages
\* are as their scripts would construct them.
StoryInit ==
  /\ page = "story"
  /\ state = InitState
  /\ pending = <<>>
  /\ data = NoData
  /\ grid = "initial"
  /\ more = "initial"
  /\ inputValue = ""
  /\ searchTimeout = NoTimer
  /\ btnDisabled = FALSE
  /\ toast = "none"
  /\ ipc = "cats"
  /\ rpc = "idle"
  /\ rpage = NoData
  /\ owed = FALSE
  /\ settled = NoSettled
  /\ posts = 0
  /\ topics = <<>>
  /\ blindspots = <<>>
  /\ loading = FALSE
  /\ fetches = 0
  /\ threw = FALSE
  /\ issuedAt = NoIssue
  /\ storage = [k \in StorageKeys |-> NoValue]
  /\ dataTheme = initTheme(page, storage)
  /\ storyId \in StoryIds
  /\ storyData = "null"
  /\ timelineData = "null"
  /\ currentTab = "compare"
  /\ tpending = 0
  /\ panel = "initial"
  /\ spc = IF storyId # "" THEN "story" ELSE "none"

\* any of the four documents is the first one loaded
SiteInit == Init \/ StoryInit

SiteNext ==
  \/ \E p \in SitePages, id \in StoryIds : Navigate(p, id)
  \/ ToggleTheme
  \/ \E o \in StoryOutcomes : StorySettle(o)
  \/ \E t \in Tabs : SwitchTab(t)
  \/ \E o \in TimelineOutcomes : TimelineSettle(o)
  \/ \E o \in CategoryOutcomes : CategoriesSettle(o)
  \/ \E i \in 1..Len(pending), o \in PageOutcomes : PageSettle(i, o)
  \/ InitMetaSettle
  \/ \E o \in FeedOutcomes : loadTrendingSettle(o)
  \/ \E o \in FeedOutcomes : loadBlindspotsSettle(o)

SiteSpec == SiteInit /\ [][SiteNext]_vars

----------------------------------------------------------------------------
(* Properties of the story list view *)

PageAB2 == [kind |-> "page", total |-> 2, items |-> <<"A", "B">>]
PageAB5 == [kind |-> "page", total |-> 5, items |-> <<"A", "B">>]
PageCD5 == [kind |-> "page", total |-> 5, items |-> <<"C", "D">>]

\* a step in which a /api/stories reply is handled by loadStories
PageHandled == Len(pending') < Len(pending)

\* nothing is running and no timer is armed: without a new user event
\* nothing further happens
Quiescent ==
  /\ pending = <<>>
  /\ searchTimeout = NoTimer
  /\ ipc = "done"
  /\ rpc = "idle"

\* C1: at most one /api/stories fetch is outstanding at any time, and no
\* step taken while state.loading is true issues a fetch.
C1_OneFetchOutstanding ==
  /\ [](Len(pending) <= 1)
  /\ [][state.loading => Len(pending') <= Len(pending)]_vars

\* a category click was dropped by the guard while a fetch is outstanding
C1_Witness == owed /\ state.loading /\ Len(pending) = 1

\* C2: state.loading is true exactly when a page fetch has been issued and
\* its reply has not yet been handled.
C2_LoadingIffInFlight == state.loading <=> (pending # <<>>)

\* a reply has been handled and a later load-more fetch is in flight
C2_Witness ==
  /\ state.loading
  /\ Len(pending) = 1
  /\ pending[1].offset = Limit
  /\ Len(state.stories) > 0

\* C3: whenever a reply is applied, the category, query and offset it was
\* requested with equal the current state.category, state.query and
\* state.offset.
C3_NoStaleApply ==
  [][PageHandled =>
       /\ pending[1].category = state.category
       /\ pending[1].q = state.query
       /\ pending[1].offset = state.offset]_vars

\* C4: a second loadMore() made while the fetch of the first one is still
\* outstanding issues no fetch and does not advance state.offset again.
C4_SecondLoadMoreIgnored ==
  [][(LoadMore /\ state.offset > 0 /\ pending = <<Request(state)>>) =>
       (state'.offset = state.offset /\ pending' = pending)]_vars

\* C5: loadMore() with state.hasMore false issues no fetch and leaves the
\* state object unchanged.
C5_LoadMoreWithoutMoreIsNoop ==
  [][(LoadMore /\ ~state.hasMore) => (state' = state /\ pending' = pending)]_vars

\* C6: a click on another category is followed by a page fetch for the new
\* category at offset 0: the view never comes to rest while such a fetch is
\* still owed.
C6_ClickFollowedByFetch == Quiescent => ~owed

\* C7: when the debounce timer of a burst of input events fires, exactly one
\* page fetch is issued, with q the text of the last input event and
\* offset 0.
C7_BurstGivesOneFetch ==
  [][(SearchTimerFire /\ inputValue = searchTimeout) =>
       /\ Len(pending') = Len(pending) + 1
       /\ pending'[Len(pending')].q = searchTimeout
       /\ pending'[Len(pending')].offset = 0]_vars

\* C8: a handled page replaces state.stories when state.offset is 0 and is
\* appended to it otherwise, and state.hasMore becomes (length of
\* state.stories < total); with the two examples of the specification.
C8_PageMerge ==
  [][(PageHandled /\ data'.kind = "page") =>
       /\ state'.stories = (IF state.offset = 0 THEN data'.items
                            ELSE state.stories \o data'.items)
       /\ state'.hasMore = (Len(state'.stories) < data'.total)
       /\ (state.offset = 0 /\ data' = PageAB2) =>
            (state'.stories = <<"A", "B">> /\ ~state'.hasMore)
       /\ (state.offset # 0 /\ state.stories = <<"A", "B">> /\ data' = PageCD5) =>
            (state'.stories = <<"A", "B", "C", "D">> /\ state'.hasMore)]_vars

\* page 0 [A,B] of 5, then loadMore answered with [C,D] of 5
C8_Witness ==
  /\ ~state.loading
  /\ state.offset = Limit
  /\ data = PageCD5
  /\ state.stories = <<"A", "B", "C", "D">>
  /\ state.hasMore

\* C9: when a successful refresh completes, state.offset is 0 and
\* state.stories is the page that the loadStories call of that refresh
\* fetched (a reply whose body is JSON null, which loadStories cannot read,
\* is left aside).
C9_RefreshEndsOnFreshPage ==
  [][(rpc = "meta" /\ rpc' = "idle" /\ rpage.kind # "null") =>
       /\ state'.offset = 0
       /\ rpage.kind = "page"
       /\ state'.stories = rpage.items]_vars

\* C10: no step of a refreshData call that fails changes state.stories,
\* state.offset or state.hasMore or issues a page fetch.
C10_FailedRefreshLeavesState ==
  [][((rpc = "idle" /\ rpc' = "post") \/ (rpc = "post" /\ rpc' = "idle")) =>
       /\ state'.stories = state.stories
       /\ state'.offset = state.offset
       /\ state'.hasMore = state.hasMore
       /\ pending' = pending]_vars

\* a refresh has failed on a view that holds a loaded second page
C10_Witness ==
  /\ toast = "error"
  /\ rpc = "idle"
  /\ ~btnDisabled
  /\ state.offset = Limit
  /\ Len(state.stories) = 4

----------------------------------------------------------------------------
(* Properties of refresh and of the fetchers, on all pages *)

\* a step in which a POST /api/refresh that did not succeed is handled
RefreshFailsWith(o) ==
  \/ RefreshSettle(o)
  \/ TrendingRefreshSettle(o)
  \/ BlindspotsRefreshSettle(o)

\* C11: on every page, handling a refresh that did not succeed (rejected,
\* unparsable, ok = false) shows an error toast, and every refresh ends with
\* the refresh control enabled.
C11_FailedRefreshToastsError ==
  [][/\ \A o \in RefreshOutcomes \ {"ok"} :
          (RefreshFailsWith(o) /\ toast # "error") => toast' = "error"
     /\ (rpc # "idle" /\ rpc' = "idle") => ~btnDisabled']_vars

\* C12: the refresh control is disabled as long as a refreshData call is
\* running (its POST and the reload it awaits), and at most one
\* POST /api/refresh is outstanding.
C12_RefreshControlDisabled ==
  /\ (rpc # "idle") => btnDisabled
  /\ (posts > 0) => btnDisabled
  /\ posts <= 1

\* a refresh of the story list is waiting for its own reload
C12_Witness ==
  /\ page = "list"
  /\ rpc = "load"
  /\ Len(pending) = 1
  /\ posts = 0
  /\ btnDisabled

\* C16: no read fetcher throws to its caller.
C16_FetchersNeverThrow == ~threw

----------------------------------------------------------------------------
(* Properties of a failed page request on the story list *)

\* a step in which loadStories handles a reply that was a network
\* rejection, a non-2xx status or malformed JSON
FailedPageHandled == PageHandled /\ settled'.class = "fail"

\* C13: handling a failed page request leaves state.stories as it was.
C13_FailedPageKeepsStories ==
  [][FailedPageHandled => state'.stories = state.stories]_vars

\* C14: when the page request at offset 0 has failed, the grid shows
\* "Failed to load" with its Retry button.
C14_FailedPageZeroShowsRetry ==
  [][(FailedPageHandled /\ settled'.req.offset = 0) => grid' = "failed"]_vars

\* a user action that calls loadStories at once
UserLoad ==
  \/ LoadMore
  \/ Retry
  \/ ClearSearch
  \/ \E c \in {ServerCategories[i] : i \in 1..Len(ServerCategories)} : CategoryClick(c)

\* one user action issues the failed request again
RetrySame == UserLoad /\ pending' = <<settled.req>>

\* C17: after a failed page request the view is idle and a user action that
\* issues the same request (category, query, offset) again is available.
C17_FailedRequestCanBeRetried ==
  (page = "list" /\ settled.class = "fail") =>
     (~state.loading /\ ENABLED RetrySame)

----------------------------------------------------------------------------
(* Progress of the page loader *)

\* The story list with one answer of each kind: a page, a failure, a null
\* body; one text to type; one failure of the refresh.
LivePageOutcomes ==
  { [kind |-> "ok", body |-> [total |-> 5, items |-> <<"A", "B">>]],
    [kind |-> "reject", body |-> [total |-> 0, items |-> <<>>]],
    [kind |-> "null", body |-> [total |-> 0, items |-> <<>>]] }

LiveInit == Init /\ page = "list"

LiveNext ==
  \/ CategoriesSettle("ok")
  \/ InitMetaSettle
  \/ \E c \in {ServerCategories[i] : i \in 1..Len(ServerCategories)} : CategoryClick(c)
  \/ LoadMore
  \/ HandleSearch("a")
  \/ SearchTimerFire
  \/ ClearSearch
  \/ Retry
  \/ \E i \in 1..Len(pending), o \in LivePageOutcomes : PageSettle(i, o)
  \/ RefreshClick
  \/ \E o \in {"ok", "reject"} : RefreshSettle(o)
  \/ RefreshMetaSettle

\* Every issued /api/stories request eventually settles.
FairSpec ==
  /\ LiveInit
  /\ [][LiveNext]_vars
  /\ WF_vars(\E i \in 1..Len(pending), o \in LivePageOutcomes : PageSettle(i, o))

\* C15: provided every issued fetch settles, state.loading is eventually
\* false again after any loadStories call.
C15_LoadingEventuallyCleared == state.loading ~> ~state.loading

\* a second loadStories call was dropped while the first is in flight
C15_Witness ==
  /\ state.loading
  /\ Len(pending) = 1
  /\ pending[1] # Request(state)

----------------------------------------------------------------------------
(* Frame and shape of the story list state *)

Categories == {ServerCategories[i] : i \in 1..Len(ServerCategories)}

\* C18: a click on the category that is already active issues no fetch and
\* leaves the state object unchanged.
C18_SameCategoryClickIsNoop ==
  [][\A c \in Categories :
       (CategoryClick(c) /\ c = state.category) =>
          (state' = state /\ pending' = pending)]_vars

\* the active category's button is rendered over a loaded second page
C18_Witness ==
  /\ page = "list"
  /\ Len(state.categories) = 2
  /\ state.category = "Tech"
  /\ state.offset = Limit
  /\ Len(state.stories) = 4
  /\ ~state.loading

\* C19: when the view is idle and updateMoreButton has run, #more is shown
\* exactly when state.hasMore is true.
C19_MoreShownIffHasMore ==
  (page = "list" /\ ~state.loading /\ more # "initial") =>
     ((more = "block") <=> state.hasMore)

\* idle with the last page loaded and #more hidden
C19_Witness ==
  /\ page = "list"
  /\ ~state.loading
  /\ settled.class = "ok"
  /\ Len(state.stories) = 2
  /\ ~state.hasMore
  /\ more = "none"

IsPrefix(a, b) == Len(a) <= Len(b) /\ SubSeq(b, 1, Len(a)) = a

\* a step that changes the filter: category, search text, clearSearch, refresh
FilterChange ==
  \/ \E c \in Categories : CategoryClick(c)
  \/ SearchTimerFire
  \/ ClearSearch
  \/ RefreshSettle("ok")

\* C20 as stated: a step that is not a filter change extends state.stories
\* (the old value is a prefix of the new one) and does not decrease
\* state.offset.
C20_OnlyFilterChangeShortens ==
  [][(page = "list" /\ ~FilterChange) =>
       /\ IsPrefix(state.stories, state'.stories)
       /\ state'.offset >= state.offset]_vars

\* C20 amended: a step that is not a filter change does not decrease
\* state.offset, and changes state.stories only by handling a reply: the
\* page is appended when state.offset > 0 and replaces the list when
\* state.offset is 0.
C20_GrowsOrPageZeroReplaces ==
  [][(page = "list" /\ ~FilterChange) =>
       /\ state'.offset >= state.offset
       /\ \/ state'.stories = state.stories
          \/ /\ PageHandled
             /\ data'.kind = "page"
             /\ state'.stories = (IF state.offset = 0 THEN data'.items
                                  ELSE state.stories \o data'.items)]_vars

\* two pages accumulated under one filter
C20_Witness ==
  /\ page = "list"
  /\ state.category = "Tech"
  /\ state.offset = Limit
  /\ state.stories = <<"A", "B", "C", "D">>
  /\ data = PageCD5

----------------------------------------------------------------------------
(* Paging and the debounce timer *)

\* a step in which loadStories issues a /api/stories request
PageIssued == Len(pending') > Len(pending)

\* C22: under one unchanged filter the requests issued have offsets 0,
\* limit, 2*limit, ...: the first request under a filter is for offset 0 and
\* every later one is for the offset issued before it or the next one.
C22_OffsetsWithoutGap ==
  [][(page = "list" /\ PageIssued) =>
       IF FilterChange \/ issuedAt = NoIssue
       THEN issuedAt' = 0
       ELSE issuedAt' \in {issuedAt, issuedAt + Limit}]_vars

\* C23: clearSearch leaves state.query and the search box empty, and from
\* then until the next input event no step sets state.query to another value
\* or issues a request with another q, a pending debounce timer included.
C23_ClearSearchSticks ==
  [][/\ ClearSearch => (state'.query = "" /\ inputValue' = "")
     /\ (/\ page = "list"
         /\ state.query = ""
         /\ inputValue = ""
         /\ ~(\E t \in Texts : HandleSearch(t)))
        => /\ state'.query = ""
           /\ inputValue' = ""
           /\ PageIssued => pending'[Len(pending')].q = ""]_vars

\* clearSearch has run while the timer armed by typing "a" was pending
C23_Witness ==
  /\ page = "list"
  /\ searchTimeout = "a"
  /\ inputValue = ""
  /\ state.query = ""

----------------------------------------------------------------------------
(* Theme, feed loaders and the timeline tab *)

\* C21: a toggleTheme call switches the applied theme between 'dark' and
\* 'light' and stores the theme it applied under the page's theme key, no
\* other key changes and no other step writes to local storage, and a
\* later load of the same page applies the stored theme.
C21_ThemeStoredAndApplied ==
  [][/\ ToggleTheme =>
          /\ dataTheme' \in {"dark", "light"}
          /\ dataTheme' # dataTheme
          /\ storage'[ThemeKey(page)] = dataTheme'
          /\ \A k \in StorageKeys \ {ThemeKey(page)} : storage'[k] = storage[k]
     /\ ~ToggleTheme => storage' = storage
     /\ ((\E id \in StoryIds : Navigate(page, id)) /\ storage[ThemeKey(page)] # NoValue)
          => dataTheme' = storage[ThemeKey(page)]]_vars

\* the trending page after an even number of toggles, at least two
C21_Witness ==
  /\ page = "trending"
  /\ storage["openground-theme"] = "dark"
  /\ dataTheme = "dark"

\* C24: the theme initTheme applies is the same on every page, with the
\* themes stored so far and with nothing stored.
C24_ThemeSharedAcrossPages ==
  \A p, q \in SitePages : initTheme(p, storage) = initTheme(q, storage)

\* C25: on the trending and blindspots pages at most one fetch is in flight,
\* a reply that is not a 2xx answer with a JSON body leaves the list
\* unchanged, and loading is false after every reply.
C25_FeedLoaderKeepsList ==
  [][/\ fetches' <= 1
     /\ \A o \in FeedOutcomes :
          (loadTrendingSettle(o) \/ loadBlindspotsSettle(o)) =>
             /\ ~loading'
             /\ o.kind \in {"status", "reject", "malformed"} =>
                  (topics' = topics /\ blindspots' = blindspots)]_vars

\* C26: at most one timeline request is outstanding at any time.
C26_OneTimelineRequest == tpending <= 1

====
